---- MODULE Spec2Model ----
(***************************************************************************)
(* The long-polling dispatch loop of the Telegram bot framework:           *)
(* Bot.RunLongPolling, Bot.handle, Bot.AddHandler and Bot.GetUpdates.      *)
(*                                                                         *)
(* One process (the goroutine that calls RunLongPolling).  The platform    *)
(* and the registered handlers are the environment: every response of the *)
(* platform and every behaviour of a handler (its return value, a write    *)
(* through the *Update it is handed, a call of AddHandler) is drawn from a  *)
(* bounded set.                                                            *)
(***************************************************************************)
EXTENDS Integers, Sequences, FiniteSets

\* ------------------------------------------------------------ bounds
\* Go's int, scaled down: MinInt..MaxInt, two's complement wrap-around.
MaxInt == 3
MinInt == -MaxInt - 1
\* longest result array of one getUpdates response
MaxBatch == 2
\* longest run of consecutive failing GetUpdates calls
MaxStreak == 2
\* longest handler chain
MaxHandlers == 2

\* ------------------------------------------------------------ values
\* the nil error
Nil == [kind |-> "nil", msg |-> ""]
Descriptions == {"", "Unauthorized"}

\* The update_id values the platform sends: three small ones and the largest int.
UpdateIDs == {0, 1, 2, MaxInt}
\* The values a handler assigns to the UpdateID field of the record it is handed.
WrittenIDs == {0, 2}
\* no update_id value
NoID == MinInt - 1
\* a handler that leaves the UpdateID field alone
NoWrite == NoID

\* Update: only the field the loop reads.
Update(id) == [UpdateID |-> id]
Updates == {Update(id) : id \in UpdateIDs}

RECURSIVE SeqsUpTo(_, _)
SeqsUpTo(S, n) ==
    IF n = 0 THEN {<<>>}
    ELSE LET shorter == SeqsUpTo(S, n - 1)
         IN  shorter \cup {Append(s, x) : s \in {t \in shorter : Len(t) = n - 1}, x \in S}

Batches == SeqsUpTo(Updates, MaxBatch)

\* the UpdateID fields of a sequence of updates
IDsOf(us) == {us[k].UpdateID : k \in 1..Len(us)}

\* the largest element of a set of update_id values (NoID for the empty set)
LargestOf(S) == IF S = {} THEN NoID ELSE CHOOSE x \in S : \A y \in S : y <= x

\* int addition of 1 as Go computes it (wraps at MaxInt).
Add1(x) == IF x = MaxInt THEN MinInt ELSE x + 1

\* ------------------------------------------------------------ GetUpdates
\* What CallMethod hands back: an error (json.Marshal, http.Post or ReadAll
\* failed) or the raw body.
TransportErr == [kind |-> "transport", msg |-> "post failed"]
DecodeErr == [kind |-> "decode", msg |-> "invalid character"]
APIErr(description) == [kind |-> "api", msg |-> description]

\* A body: decodes tells whether json.Unmarshal accepts it; the other fields
\* are the GetUpdatesResponse{OK, Description, Result} it decodes into.
Envelopes ==
    {[decodes |-> TRUE, OK |-> TRUE, Description |-> "", Result |-> b] : b \in Batches}
    \cup {[decodes |-> TRUE, OK |-> FALSE, Description |-> d, Result |-> b] :
             d \in Descriptions, b \in {<<>>, <<Update(0)>>}}
Malformed == [decodes |-> FALSE, OK |-> FALSE, Description |-> "", Result |-> <<>>]

CallResults ==
    {[err |-> TransportErr, body |-> Malformed]}
    \cup {[err |-> Nil, body |-> Malformed]}
    \cup {[err |-> Nil, body |-> env] : env \in Envelopes}

\* GetUpdates without the check of the envelope's ok field.
GetUpdatesIgnoresOK(res) ==
    IF res.err # Nil THEN [updates |-> <<>>, err |-> res.err]
    ELSE IF ~res.body.decodes THEN [updates |-> <<>>, err |-> DecodeErr]
    ELSE [updates |-> res.body.Result, err |-> Nil]

\* GetUpdates that hands back the envelope's result next to the API error.
GetUpdatesKeepsResult(res) ==
    IF res.err # Nil THEN [updates |-> <<>>, err |-> res.err]
    ELSE IF ~res.body.decodes THEN [updates |-> <<>>, err |-> DecodeErr]
    ELSE IF ~res.body.OK
         THEN [updates |-> res.body.Result, err |-> APIErr(res.body.Description)]
    ELSE [updates |-> res.body.Result, err |-> Nil]

\* Bot.GetUpdates after CallMethod returned res: (updates, err).
GetUpdates(res) ==
    IF res.err # Nil THEN [updates |-> <<>>, err |-> res.err]
    ELSE IF ~res.body.decodes THEN [updates |-> <<>>, err |-> DecodeErr]
    ELSE IF ~res.body.OK THEN [updates |-> <<>>, err |-> APIErr(res.body.Description)]
    ELSE [updates |-> res.body.Result, err |-> Nil]

\* ------------------------------------------------------------ handlers
\* One invocation of a HandlerFunc: it returns an error or nil, it may assign
\* to the UpdateID field of the *Update it was handed, and it may call
\* e.AddHandler.
HandlerOutcomes ==
    [err : BOOLEAN, write : {NoWrite} \cup WrittenIDs, add : BOOLEAN]

\* An append that puts the new handler in front.
AddHandlerPrepends(hs, handler) == <<handler>> \o hs

\* e.handlers = append(e.handlers, handler)
AddHandlerTo(hs, handler) == Append(hs, handler)

\* handle without the break.
HandleNeverBreaks(e) == FALSE

\* handle: if err != nil { log; break }
HandleBreaks(e) == e

\* A handler's error that ends the range over updates.
AfterHandleAborts(e) == IF e THEN "poll" ELSE "advance"

\* A handler's error that makes RunLongPolling return.
AfterHandleReturns(e) == IF e THEN "returned" ELSE "advance"

\* A handle whose return starts the next fetch at once.
AfterHandlePolls(e) == "poll"

\* RunLongPolling: where the goroutine continues when handle has returned; handle
\* returns nothing, so the handlers' errors do not reach RunLongPolling.
AfterHandle(e) == "advance"

\* A failed GetUpdates that makes RunLongPolling return.
AfterFetchErrorReturns == "returned"

\* RunLongPolling: where the goroutine continues after a failed GetUpdates.
AfterFetchError == "sleep"

\* The comparison without the + 1 on its right side.
NextOffsetStrict(off, id) == IF off < id THEN Add1(id) ELSE off

\* offset = update.UpdateID + 1 without the comparison.
NextOffsetNoGuard(off, id) == Add1(id)

\* The comparison and the assignment without the + 1.
NextOffsetNoSuccessor(off, id) == IF off < id THEN id ELSE off

\* RunLongPolling: if offset < update.UpdateID + 1 { offset = update.UpdateID + 1 }
NextOffset(off, id) == IF off < Add1(id) THEN Add1(id) ELSE off

\* A range that stops one element early.
RangeSkipsLast(k, us) == k < Len(us)

\* A range that ends at an element with the UpdateID of the one before it.
RangeStopsAtRepeat(k, us) ==
    /\ k <= Len(us)
    /\ (k = 1 \/ us[k].UpdateID # us[k - 1].UpdateID)

\* RunLongPolling: for _, update := range updates: is there a k-th element?
RangeHasNext(k, us) == k <= Len(us)

\* A loop that starts at offset 1.
InitialOffsetOne == Add1(0)

\* RunLongPolling: offset := 0
InitialOffset == 0

\* A request that asks for the updates after offset.
RequestAfter(off) == [offset |-> Add1(off), limit |-> 100, timeout |-> 120]

\* RunLongPolling: e.GetUpdates(offset, 100, 120)
Request(off) == [offset |-> off, limit |-> 100, timeout |-> 120]

VARIABLES
    handlers,   \* e.handlers; a handler is named by its registration number
    pc,         \* where the goroutine is
    offset,     \* RunLongPolling's offset
    updates,    \* RunLongPolling's updates (result of the last GetUpdates)
    err,        \* RunLongPolling's err (of the last GetUpdates)
    i,          \* position of the range over updates
    update,     \* the range variable: a copy of updates[i]; handlers get &update
    chain,      \* handle: the slice its range over e.handlers iterates
    h,          \* handle: position of the range over the chain
    req,        \* parameters of the last GetUpdates call
    res,        \* history: what CallMethod handed back to the last GetUpdates
    episode,    \* history: offsets sent since the last successful fetch
    nPass,      \* history: range loops over updates entered since the last fetch
    passLog,    \* history: the updates, as fetched, handed to handle in this pass
    nCalls,     \* history: handler invocations in this pass
    invoked,    \* history: handler invocations for the current update
    unacked,    \* history, between passes: the largest fetched UpdateID that the
                \*          last pass dispatched and that is still >= offset (NoID:
                \*          there is none, or some fetch was not honest)
    redelivery, \* history: the last fetch returned the UpdateID unacked again
    readMax,    \* history: the largest UpdateID + 1 that line 750 has read in
                \*          this pass (NoID: it has read none)
    honest,     \* history: every fetch so far returned only UpdateIDs >= its offset
    failed,     \* history: some handler has returned an error in this pass
    earlier     \* history, across runs: an UpdateID that a run of the program
                \*          that has ended handed to handle (NoID: there is none)

vars == <<handlers, pc, offset, updates, err, i, update, chain, h, req,
          res, episode, nPass, passLog, nCalls, invoked, unacked, redelivery,
          readMax, honest, failed, earlier>>

loopVars == <<offset, updates, err, i, update, chain, h, req>>
histVars == <<res, episode, nPass, passLog, nCalls, invoked, unacked, redelivery,
              readMax, honest, failed, earlier>>

\* NewBot: no handlers; RunLongPolling has not been called.
Init ==
    /\ handlers = <<>>
    /\ pc = "main"
    /\ offset = InitialOffset
    /\ updates = <<>>
    /\ err = Nil
    /\ i = 1
    /\ update = Update(0)
    /\ chain = <<>>
    /\ h = 1
    /\ req = [offset |-> 0, limit |-> 0, timeout |-> 0]
    /\ res = [err |-> Nil, body |-> [decodes |-> TRUE, OK |-> TRUE,
                                     Description |-> "", Result |-> <<>>]]
    /\ episode = <<>>
    /\ nPass = 0
    /\ passLog = <<>>
    /\ nCalls = 0
    /\ invoked = <<>>
    /\ unacked = NoID
    /\ redelivery = FALSE
    /\ readMax = NoID
    /\ honest = TRUE
    /\ failed = FALSE
    /\ earlier = NoID

\* main registers a handler before it starts the loop.
AddHandler ==
    /\ pc = "main"
    /\ Len(handlers) < MaxHandlers
    /\ handlers' = AddHandlerTo(handlers, Len(handlers) + 1)
    /\ UNCHANGED <<pc, loopVars, histVars>>

\* main calls RunLongPolling: offset := 0, enter the for loop.
RunLongPolling ==
    /\ pc = "main"
    /\ offset' = InitialOffset
    /\ pc' = "poll"
    /\ UNCHANGED <<handlers, updates, err, i, update, chain, h, req, histVars>>

\* updates, err := e.GetUpdates(offset, 100, 120); if err != nil { log ...
Poll ==
    /\ pc = "poll"
    /\ episode' = IF err = Nil THEN <<offset>> ELSE Append(episode, offset)
    /\ \E result \in CallResults :
          LET r == GetUpdates(result) IN
          /\ r.err # Nil => Len(episode') <= MaxStreak
          /\ res' = result
          /\ updates' = r.updates
          /\ err' = r.err
          /\ pc' = IF r.err # Nil THEN AfterFetchError ELSE "range"
          /\ honest' = (honest /\ \A id \in IDsOf(r.updates) : id >= offset)
          /\ redelivery' = (unacked \in IDsOf(r.updates))
    /\ req' = Request(offset)
    /\ nPass' = 0
    /\ passLog' = <<>>
    /\ nCalls' = 0
    /\ readMax' = NoID
    /\ failed' = FALSE
    /\ unacked' = NoID
    /\ UNCHANGED <<handlers, offset, i, update, chain, h, invoked, earlier>>

\* time.Sleep(time.Second); continue
Sleep ==
    /\ pc = "sleep"
    /\ pc' = "poll"
    /\ UNCHANGED <<handlers, loopVars, histVars>>

\* A range that remembers what an earlier run dispatched and ends at an update
\* with that UpdateID.
RangeSkipsEarlier ==
    /\ pc = "range"
    /\ nPass' = IF i = 1 THEN nPass + 1 ELSE nPass
    /\ IF RangeHasNext(i, updates) /\ updates[i].UpdateID # earlier
       THEN /\ update' = updates[i]
            /\ passLog' = Append(passLog, updates[i])
            /\ invoked' = <<>>
            /\ chain' = handlers
            /\ h' = 1
            /\ pc' = IF handlers = <<>> THEN AfterHandle(FALSE) ELSE "handle"
            /\ UNCHANGED <<i, unacked>>
       ELSE /\ pc' = "poll"
            /\ i' = 1
            /\ update' = Update(0)
            /\ invoked' = <<>>
            /\ unacked' = IF honest THEN LargestOf({id \in IDsOf(updates) : id >= offset})
                                     ELSE NoID
            /\ chain' = <<>>
            /\ h' = 1
            /\ UNCHANGED passLog
    /\ UNCHANGED <<handlers, offset, updates, err, req, res, episode, nCalls, redelivery,
                   readMax, honest, failed, earlier>>

\* A range that walks the batch from its last element to its first.
RangeBackwards ==
    /\ pc = "range"
    /\ nPass' = IF i = 1 THEN nPass + 1 ELSE nPass
    /\ IF RangeHasNext(i, updates)
       THEN /\ update' = updates[Len(updates) + 1 - i]
            /\ passLog' = Append(passLog, updates[Len(updates) + 1 - i])
            /\ invoked' = <<>>
            /\ chain' = handlers
            /\ h' = 1
            /\ pc' = IF handlers = <<>> THEN AfterHandle(FALSE) ELSE "handle"
            /\ UNCHANGED <<i, unacked>>
       ELSE /\ pc' = "poll"
            /\ i' = 1
            /\ update' = Update(0)
            /\ invoked' = <<>>
            /\ unacked' = IF honest THEN LargestOf({id \in IDsOf(updates) : id >= offset})
                                     ELSE NoID
            /\ chain' = <<>>
            /\ h' = 1
            /\ UNCHANGED passLog
    /\ UNCHANGED <<handlers, offset, updates, err, req, res, episode, nCalls, redelivery,
                   readMax, honest, failed, earlier>>

\* for _, update := range updates { e.handle(&update) ...: the next element is
\* copied into update and handle begins its range over e.handlers; past the
\* last element the outer for loop starts over.
Range ==
    /\ pc = "range"
    /\ nPass' = IF i = 1 THEN nPass + 1 ELSE nPass
    /\ IF RangeHasNext(i, updates)
       THEN /\ update' = updates[i]
            /\ passLog' = Append(passLog, updates[i])
            /\ invoked' = <<>>
            /\ chain' = handlers
            /\ h' = 1
            /\ pc' = IF handlers = <<>> THEN AfterHandle(FALSE) ELSE "handle"
            /\ UNCHANGED <<i, unacked>>
       ELSE /\ pc' = "poll"
            /\ i' = 1
            /\ update' = Update(0)
            /\ invoked' = <<>>
            /\ unacked' = IF honest THEN LargestOf({id \in IDsOf(updates) : id >= offset})
                                     ELSE NoID
            /\ chain' = <<>>
            /\ h' = 1
            /\ UNCHANGED passLog
    /\ UNCHANGED <<handlers, offset, updates, err, req, res, episode, nCalls, redelivery,
                   readMax, honest, failed, earlier>>

\* handle: err := handler(e, update); if err != nil { log; break }
Handle ==
    /\ pc = "handle"
    /\ h <= Len(chain)
    /\ \E o \in HandlerOutcomes :
          /\ o.add => Len(handlers) < MaxHandlers
          /\ update' = IF o.write = NoWrite THEN update
                                            ELSE [update EXCEPT !.UpdateID = o.write]
          /\ handlers' = IF o.add THEN AddHandlerTo(handlers, Len(handlers) + 1)
                                  ELSE handlers
          /\ invoked' = Append(invoked, [handler |-> chain[h], err |-> o.err])
          /\ IF HandleBreaks(o.err) \/ h >= Len(chain)
             THEN pc' = AfterHandle(o.err) /\ h' = h
             ELSE pc' = "handle" /\ h' = h + 1
          /\ failed' = (failed \/ o.err)
    /\ nCalls' = nCalls + 1
    /\ UNCHANGED <<offset, updates, err, i, chain, req, res, episode, nPass, passLog,
                   unacked, redelivery, readMax, honest, earlier>>

\* if offset < (update.UpdateID + 1) { offset = update.UpdateID + 1 }
Advance ==
    /\ pc = "advance"
    /\ offset' = NextOffset(offset, update.UpdateID)
    /\ i' = i + 1
    /\ pc' = "range"
    /\ readMax' = LargestOf({readMax, Add1(update.UpdateID)} \ {NoID})
    /\ UNCHANGED <<handlers, updates, err, update, chain, h, req, res, episode, nPass,
                   passLog, nCalls, invoked, unacked, redelivery, honest, failed,
                   earlier>>

Next == AddHandler \/ RunLongPolling \/ Poll \/ Sleep \/ Range \/ Handle \/ Advance

Spec == Init /\ [][Next]_vars

\* The goroutine that runs main and RunLongPolling keeps running: the calls it
\* makes (http.Post, time.Sleep, the handlers) return, so whatever statement it
\* is at is eventually executed.
FairSpec == Spec /\ WF_vars(Next)

\* The process ends (it is killed, or it crashes) and the program is started
\* again: NewBot makes a Bot with no handlers, offset is a local variable of
\* RunLongPolling that the next call sets to 0, and nothing was written
\* anywhere; what the ended run handed to handle is known to the platform's
\* side only.
Restart ==
    /\ pc # "main"
    /\ earlier' = IF passLog # <<>> THEN passLog[Len(passLog)].UpdateID ELSE earlier
    /\ handlers' = <<>>
    /\ pc' = "main"
    /\ offset' = InitialOffset
    /\ updates' = <<>>
    /\ err' = Nil
    /\ i' = 1
    /\ update' = Update(0)
    /\ chain' = <<>>
    /\ h' = 1
    /\ req' = [offset |-> 0, limit |-> 0, timeout |-> 0]
    /\ res' = [err |-> Nil, body |-> [decodes |-> TRUE, OK |-> TRUE,
                                      Description |-> "", Result |-> <<>>]]
    /\ episode' = <<>>
    /\ nPass' = 0
    /\ passLog' = <<>>
    /\ nCalls' = 0
    /\ invoked' = <<>>
    /\ unacked' = NoID
    /\ redelivery' = FALSE
    /\ readMax' = NoID
    /\ honest' = TRUE
    /\ failed' = FALSE

\* The program, run and run again.
NextOrRestart == Next \/ Restart

RestartSpec == Init /\ [][NextOrRestart]_vars

\* ------------------------------------------------------------ properties
LoopPCs == {"poll", "sleep", "range", "handle", "advance"}

\* The range over the batch of the last successful fetch has ended.
PassEnded == pc = "poll" /\ err = Nil /\ nPass > 0

\* The last fetch failed: transport error, undecodable body or ok:false.
FetchFailed == res.err # Nil \/ ~res.body.decodes \/ ~res.body.OK

\* C1: no step of the program decreases offset, whatever the fetches return
\* (errors, empty batches, stale or unordered UpdateIDs) and whatever the
\* handlers do.
C1_OffsetMonotone == [][offset' >= offset]_vars

\* C1's case: an update whose UpdateID + 1 is below offset was dispatched, a
\* handler failed on it, and offset kept its value.
C1_Witness ==
    /\ pc = "range" /\ i = 2
    /\ failed
    /\ update = updates[1]
    /\ updates[1].UpdateID + 1 < offset
    /\ offset = req.offset

\* C2 as stated: after a non-empty batch with maximum UpdateID M, offset = M + 1
\* for every batch and every prior offset.  Stated here only for the batches
\* where M + 1 does not overflow and line 750 read an UpdateID + 1 as large as
\* M + 1.
C2_Original ==
    (/\ PassEnded /\ updates # <<>>
     /\ LargestOf(IDsOf(updates)) < MaxInt
     /\ readMax = LargestOf(IDsOf(updates)) + 1)
        => offset = LargestOf(IDsOf(updates)) + 1

\* C2 amended: after a non-empty batch, offset is the larger of the offset the
\* pass began with and the largest UpdateID + 1 (int addition) that line 750
\* read from the range variable during the pass.
C2_OffsetAfterBatch ==
    (PassEnded /\ updates # <<>>) =>
        /\ readMax # NoID
        /\ offset = LargestOf({req.offset, readMax})

\* C2's case: a batch whose UpdateIDs are all below the offset has been
\* processed; offset is the prior offset, not M + 1.
C2_Witness ==
    /\ PassEnded
    /\ updates = <<Update(1), Update(0)>>
    /\ req.offset = 3
    /\ offset = 3

\* C3: for the current update, the handlers invoked are a prefix of the chain
\* handle ranges over, each once and in chain order; none was invoked after one
\* that returned an error; when handle returns, the prefix ends with the first
\* failing handler or is the whole chain.
C3_ShortCircuit ==
    /\ Len(invoked) <= Len(chain)
    /\ \A k \in 1..Len(invoked) : invoked[k].handler = chain[k]
    /\ \A k \in 1..(Len(invoked) - 1) : ~invoked[k].err
    /\ pc = "handle" => (h = Len(invoked) + 1 /\ \A k \in 1..Len(invoked) : ~invoked[k].err)
    /\ pc = "advance" =>
          \/ Len(invoked) = Len(chain)
          \/ (invoked # <<>> /\ invoked[Len(invoked)].err)

\* C3's case: handle has returned from a chain of two handlers after the first
\* one failed; the second was not invoked.
C3_Witness ==
    /\ pc = "advance"
    /\ Len(chain) = 2
    /\ Len(invoked) = 1
    /\ invoked[1].err

\* C4: a handler's error does not reach the loop: the goroutine stays in the
\* loop, every update handed to handle (also one after a failed update) gets
\* the first registered handler invoked first, and a pass ends only when every
\* update of the batch has been handed to handle.
C4_ErrorScoped ==
    /\ pc \in LoopPCs \cup {"main"}
    /\ (pc = "advance" /\ chain # <<>>) =>
          (invoked # <<>> /\ invoked[1].handler = handlers[1])
    /\ (pc = "handle" /\ invoked = <<>>) => (h = 1 /\ chain[1] = handlers[1])
    /\ PassEnded => Len(passLog) = Len(updates)

\* C4's case: a handler failed on the first update of a batch, and the second
\* update of that batch has been through the whole chain of two handlers.
C4_Witness ==
    /\ pc = "advance" /\ i = 2
    /\ failed
    /\ Len(chain) = 2
    /\ Len(invoked) = 2
    /\ ~invoked[1].err /\ ~invoked[2].err

\* C5 as stated: when the chain for the update fetched with identifier U has
\* finished, offset becomes max(offset, U + 1), whatever the handlers did.
C5_Original ==
    [][pc = "advance" =>
          offset' = (IF offset < Add1(updates[i].UpdateID)
                     THEN Add1(updates[i].UpdateID) ELSE offset)]_vars

\* C6: a successful fetch of zero updates invokes no handler and leaves offset
\* alone; the range ends at once, the loop is back at GetUpdates and the next
\* call carries the offset of the last one.
C6_EmptyBatchNoOp ==
    /\ []((PassEnded /\ updates = <<>>) =>
             (offset = req.offset /\ nCalls = 0 /\ passLog = <<>>))
    /\ [][(pc = "range" /\ updates = <<>>) =>
             (pc' = "poll" /\ offset' = offset /\ nCalls' = 0)]_vars
    /\ [][(PassEnded /\ updates = <<>>) =>
             (req'.offset = req.offset /\ req'.offset = offset)]_vars

\* C6's case: a registered handler, offset 2 from an earlier batch, and a pass
\* over an empty batch has ended.
C6_Witness ==
    /\ PassEnded
    /\ updates = <<>>
    /\ handlers # <<>>
    /\ offset = 2
    /\ nCalls = 0

\* C7: after a fetch that failed in any of the three ways the goroutine is
\* sleeping or back at GetUpdates, no update was handed to handle, no handler
\* was invoked, offset is the offset that was sent, and the next call sends the
\* same request.
C7_FetchErrorsAlike ==
    /\ [](FetchFailed =>
            /\ pc \in {"sleep", "poll"}
            /\ err # Nil
            /\ updates = <<>>
            /\ offset = req.offset
            /\ nPass = 0 /\ nCalls = 0 /\ passLog = <<>>)
    /\ [][(FetchFailed /\ pc = "sleep") => (pc' = "poll" /\ offset' = offset)]_vars
    /\ [][(FetchFailed /\ pc = "poll") => req' = req]_vars

\* C7's case: the second failure in a row, an ok:false envelope that carries a
\* result, with a registered handler and offset above 0.
C7_Witness ==
    /\ pc = "poll"
    /\ res.err = Nil /\ res.body.decodes /\ ~res.body.OK
    /\ res.body.Result # <<>>
    /\ err = APIErr("Unauthorized")
    /\ Len(episode) = 2
    /\ handlers # <<>>
    /\ offset > 0

\* C8: the fetches since the last successful one all carried the same offset;
\* a failed fetch starts no range over updates; the successful fetch that ends
\* the failures starts exactly one, which hands every update of the batch to
\* handle; the goroutine never leaves the loop.
C8_RetryWithoutCrash ==
    /\ pc \in LoopPCs \cup {"main"}
    /\ \A j \in 1..Len(episode) : episode[j] = req.offset
    /\ err # Nil => (nPass = 0 /\ passLog = <<>>)
    /\ pc \in {"range", "handle", "advance"} => nPass <= 1
    /\ PassEnded => (nPass = 1 /\ passLog = updates)

\* C8's case: MaxStreak failures, then a fetch of MaxBatch updates whose pass
\* has ended and has advanced offset.
C8_Witness ==
    /\ PassEnded
    /\ Len(episode) = MaxStreak + 1
    /\ Len(updates) = MaxBatch
    /\ handlers # <<>>
    /\ offset > req.offset

\* C9 as stated: when every fetch returned only UpdateIDs >= the offset it sent,
\* no UpdateID handed to handle in one pass is handed to handle again in a
\* later pass.  Stated here only for the UpdateIDs below the largest int.
C9_Original == (honest /\ PassEnded /\ MaxInt \notin IDsOf(updates)) => ~redelivery

\* C10: the updates handed to handle are the updates of the batch, in order and
\* each once; with a chain of one handler that never fails the handler
\* invocations of a pass are as many as the updates of the batch.
C10_EveryUpdateOnce ==
    /\ Len(passLog) <= Len(updates)
    /\ \A k \in 1..Len(passLog) : passLog[k] = updates[k]
    /\ PassEnded => passLog = updates
    /\ (PassEnded /\ Len(handlers) = 1 /\ ~failed) => nCalls = Len(updates)

\* C10's case: the last batch of [0], [], [1, 2]: one handler, two invocations,
\* offset 3.
C10_Witness ==
    /\ PassEnded
    /\ updates = <<Update(1), Update(2)>>
    /\ Len(handlers) = 1
    /\ ~failed
    /\ nCalls = 2
    /\ req.offset = 1
    /\ offset = 3

\* C11: the chain holds the handlers in the order of their registration (the
\* k-th registered handler is at position k, whether main or a handler called
\* AddHandler), and the handlers invoked for an update are invoked in that
\* order.
C11_RegistrationOrder ==
    /\ \A k \in 1..Len(handlers) : handlers[k] = k
    /\ \A k \in 1..Len(chain) : chain[k] = k
    /\ \A k \in 1..Len(invoked) : invoked[k].handler = k

\* C11's case: two handlers were registered and handle has invoked both for an
\* update, the first registered one first.
C11_Witness ==
    /\ pc = "advance"
    /\ handlers = <<1, 2>>
    /\ Len(invoked) = 2
    /\ invoked[1].handler = 1
    /\ invoked[2].handler = 2

\* C12: RunLongPolling has no terminal state: it is always at one of the
\* statements of the loop once started, and from every one of them, whatever
\* the fetches returned and whatever the handlers returned, it issues another
\* fetch.
C12_NoTerminalState ==
    /\ [](pc \in LoopPCs \cup {"main"})
    /\ [](pc \in LoopPCs => <>(pc = "poll"))
    /\ []<>(<<Poll>>_vars)

\* C12's case: a fetch failed, the retry delivered a full batch, a handler
\* returned an error for it, and the loop is about to fetch again.
C12_Witness ==
    /\ PassEnded
    /\ failed
    /\ Len(episode) > 1
    /\ Len(updates) = MaxBatch

\* C13: what GetUpdates hands RunLongPolling for the reply res of the last
\* fetch: for an envelope with ok = false, an error whose text is the
\* envelope's description and no updates; for an envelope with ok = true, the
\* envelope's result list as it is and no error; for a failed call or a body
\* that does not decode, an error and no updates; never updates and an error
\* together.
C13_EnvelopeToOutcome ==
    /\ (res.err = Nil /\ res.body.decodes /\ ~res.body.OK) =>
          (err # Nil /\ err.msg = res.body.Description /\ updates = <<>>)
    /\ (res.err = Nil /\ res.body.decodes /\ res.body.OK) =>
          (err = Nil /\ updates = res.body.Result)
    /\ res.err # Nil => (err = res.err /\ updates = <<>>)
    /\ (res.err = Nil /\ ~res.body.decodes) => (err # Nil /\ updates = <<>>)
    /\ err # Nil => updates = <<>>

\* C13's case: the platform answered ok = false with a description and a
\* non-empty result, and RunLongPolling holds the error and no updates.
C13_Witness ==
    /\ pc = "sleep"
    /\ res.err = Nil /\ res.body.decodes /\ ~res.body.OK
    /\ res.body.Description = "Unauthorized"
    /\ res.body.Result # <<>>
    /\ err.msg = "Unauthorized"
    /\ updates = <<>>

\* C14: the updates of a batch are dispatched one at a time in list order:
\* while the handlers of the i-th update run, exactly the first i updates of
\* the batch have been handed to handle, each at its list position, and the
\* i - 1 before it have been through the offset statement; between two
\* updates exactly i - 1 have been handed out; and inside handle the k-th
\* handler is invoked when the k - 1 before it have returned.
C14_SequentialDispatch ==
    /\ \A k \in 1..Len(passLog) : k <= Len(updates) /\ passLog[k] = updates[k]
    /\ pc \in {"handle", "advance"} => Len(passLog) = i
    /\ pc = "range" => Len(passLog) = i - 1
    /\ pc = "handle" => Len(invoked) = h - 1

\* C14's case: the handlers of the second update of a batch of two different
\* updates are running, after an invocation for the first one.
C14_Witness ==
    /\ pc = "handle"
    /\ i = 2
    /\ Len(updates) = 2
    /\ updates[1] # updates[2]
    /\ update = updates[2]
    /\ nCalls > 0
    /\ invoked = <<>>

\* C15: fetching and handling do not overlap: the request, the reply and the
\* batch change only at the fetch statement, where no handler invocation is
\* outstanding; and the loop arrives at the fetch statement only from the call
\* of RunLongPolling, from the sleep after a failed fetch, or from the range
\* when every update of the batch has been handed to handle and has passed
\* the offset statement.
C15_PollingHandlingDisjoint ==
    [][/\ (req' # req \/ res' # res \/ updates' # updates) =>
             (pc = "poll" /\ invoked = <<>> /\ chain = <<>>)
       /\ (pc' = "poll" /\ pc # "poll") =>
             \/ pc \in {"main", "sleep"}
             \/ /\ pc = "range"
                /\ i = Len(updates) + 1
                /\ Len(passLog) = Len(updates)
                /\ offset >= readMax]_vars

\* C15's case: a full batch went through the handlers, the offset moved, and
\* the loop is back at the fetch statement with no invocation outstanding.
C15_Witness ==
    /\ PassEnded
    /\ Len(updates) = MaxBatch
    /\ nCalls >= MaxBatch
    /\ offset > req.offset
    /\ invoked = <<>>

\* C16: every fetch carries the loop's current offset, limit 100 and timeout
\* 120: as long as no fetch was issued the offset is 0, so the first fetch
\* carries 0; every request issued has limit 100 and timeout 120; and right
\* after a fetch (in the sleep of the error branch, or before the range hands
\* out the first update) the offset sent is the loop's offset, which after a
\* batch is the one the range over that batch left.
C16_FetchParameters ==
    /\ req.limit = 0 => (pc \in {"main", "poll"} /\ offset = 0 /\ nPass = 0)
    /\ req.limit # 0 => (req.limit = 100 /\ req.timeout = 120)
    /\ (pc = "sleep" \/ (pc = "range" /\ nPass = 0)) => req.offset = offset
    /\ pc \in {"range", "handle", "advance"} => req.offset <= offset

\* C16's case: a fetch that follows a batch which moved the offset to the
\* largest value has just returned updates.
C16_Witness ==
    /\ pc = "range"
    /\ nPass = 0
    /\ req = [offset |-> MaxInt, limit |-> 100, timeout |-> 120]
    /\ offset = MaxInt
    /\ updates # <<>>

\* C17: the handler chain is immutable during a dispatch pass: from the first
\* update of a batch to the last, handle ranges over the same chain, also when
\* a handler calls AddHandler; so the chain handle takes for an update after
\* the first is the chain it had taken for the update before, and no step
\* inside handle changes it.
C17_Original ==
    [][(\/ pc \in {"handle", "advance"}
        \/ (pc = "range" /\ i > 1 /\ i <= Len(updates))) => chain' = chain]_vars

\* The batch lists its updates in ascending order of UpdateID.
Ascending(us) ==
    \A j \in 1..Len(us) : \A k \in 1..Len(us) :
        j < k => us[j].UpdateID <= us[k].UpdateID

\* C18: no update is missed: with a platform that returns the pending updates
\* at or above the offset it is sent, in ascending order, and handlers that
\* return, every pending update is eventually handed to the first handler. An
\* update is fetched only while the offset sent is at most its UpdateID, so the
\* claim needs that a pass moves the offset past no UpdateID other than the
\* ones it handed to handle: the offset after the pass is at most the offset
\* sent or the successor of the largest UpdateID of the batch. Stated here
\* only for the UpdateIDs below the largest int.
C18_Original ==
    (/\ honest
     /\ PassEnded
     /\ handlers # <<>>
     /\ updates # <<>>
     /\ Ascending(updates)
     /\ MaxInt \notin IDsOf(updates)) =>
        offset <= LargestOf({req.offset, LargestOf(IDsOf(updates)) + 1})

\* Two updates of the batch carry the same UpdateID.
HasRepeat(us) ==
    \E j \in 1..Len(us) : \E k \in 1..Len(us) :
        j < k /\ us[j].UpdateID = us[k].UpdateID

\* C19 as stated: after a batch in which an UpdateID repeats, offset is 1 plus
\* the largest UpdateID of the batch.  Stated here only for the batches where
\* that sum does not overflow and line 750 read an UpdateID + 1 as large.
C19_Original ==
    (/\ PassEnded /\ HasRepeat(updates)
     /\ MaxInt \notin IDsOf(updates)
     /\ readMax = LargestOf(IDsOf(updates)) + 1)
        => offset = LargestOf(IDsOf(updates)) + 1

\* C19 amended: nothing removes a repeated UpdateID from a batch: after the
\* pass every update of the batch, repeats included, has been handed to handle
\* in list order, with at least one handler invocation each when there are
\* handlers, and the offset is the larger of the offset the pass began with
\* and the largest UpdateID + 1 that line 750 read.
C19_DuplicatesBothRun ==
    (PassEnded /\ HasRepeat(updates)) =>
        /\ passLog = updates
        /\ handlers # <<>> => nCalls >= Len(updates)
        /\ offset = LargestOf({req.offset, readMax})

\* C19's case: a batch of two updates with the same UpdateID went through a
\* non-empty chain, both were handed to handle, and the offset is that
\* UpdateID + 1.
C19_Witness ==
    /\ PassEnded
    /\ Len(updates) = 2
    /\ updates[1].UpdateID = 1 /\ updates[2].UpdateID = 1
    /\ passLog = updates
    /\ nCalls >= 2
    /\ req.offset = 0
    /\ offset = 2

\* C20: with no handler registered, every update of a batch is handed to
\* handle and passes the offset statement unchanged, no handler is invoked
\* and no handler error arises, and the pass leaves the offset at the larger
\* of the offset it began with and the largest UpdateID + 1 of the batch: the
\* rule of line 750, which does not look at the chain.
C20_EmptyChainAcknowledges ==
    /\ (pc = "advance" /\ chain = <<>>) => (invoked = <<>> /\ update = updates[i])
    /\ (PassEnded /\ handlers = <<>>) =>
          /\ nCalls = 0
          /\ ~failed
          /\ passLog = updates
          /\ offset = LargestOf({req.offset} \cup {Add1(id) : id \in IDsOf(updates)})

\* C20's case: no handler registered, a full batch fetched and ranged over, and
\* the offset moved past it.
C20_Witness ==
    /\ PassEnded
    /\ handlers = <<>>
    /\ Len(updates) = MaxBatch
    /\ nCalls = 0
    /\ offset = LargestOf(IDsOf(updates)) + 1
    /\ offset > req.offset

\* C21: nothing is kept across runs: a run that follows an ended run starts
\* with no request sent and offset 0, and a batch that holds an UpdateID the
\* ended run had handed to handle goes through the loop like any other: the
\* update with that UpdateID is handed to handle, its first handler is
\* invoked, and after the pass every update of the batch has been handed to
\* handle, with at least one invocation each when there are handlers.
C21_RedeliveredRunsAgain ==
    /\ req.limit = 0 => (offset = 0 /\ passLog = <<>>)
    /\ (/\ earlier # NoID
        /\ pc = "advance"
        /\ updates[i].UpdateID = earlier) =>
           /\ passLog[i] = updates[i]
           /\ chain # <<>> => (invoked # <<>> /\ invoked[1].handler = chain[1])
    /\ (earlier # NoID /\ PassEnded /\ earlier \in IDsOf(updates)) =>
          /\ passLog = updates
          /\ handlers # <<>> => nCalls >= Len(updates)

\* C21's case: a run handed update 1 to handle and ended; the next run's first
\* fetch, sent with offset 0, returned update 1 again, and its handler has been
\* invoked for it.
C21_Witness ==
    /\ earlier = 1
    /\ pc = "advance"
    /\ req.offset = 0
    /\ updates = <<Update(1)>>
    /\ invoked # <<>>
    /\ nCalls = 1

\* C22: the offset depends only on the UpdateIDs as they were fetched, whatever
\* the handlers did with the records they were handed: when the first i - 1
\* updates of the batch have passed the offset statement, offset is the
\* largest of the offset the fetch was sent with and the fetched UpdateID + 1
\* (int addition) of each of them.
C22_Original ==
    pc = "range" =>
        offset = LargestOf({req.offset}
                           \cup {Add1(updates[k].UpdateID) : k \in 1..(i - 1)})

\* C23: offset is 0 or 1 + the UpdateID of an update that this run has handed
\* to handle.  Stated here for the passes whose fetch was sent with offset 0:
\* the run has then moved the offset for no update before this pass, so the
\* offset is 0 or 1 + the UpdateID, as fetched, of an update handed to handle
\* in this pass.
C23_Original ==
    req.offset = 0 =>
        \/ offset = 0
        \/ \E k \in 1..Len(passLog) : offset = passLog[k].UpdateID + 1
====
